---- MODULE Spec2Model ----
(***************************************************************************)
(* Model of the question-generation and answer-validation pipeline of      *)
(* src/ai/question_generator.py and src/ai/answer_validator.py.            *)
(*                                                                         *)
(* Python strings are sequences of character tokens, so that the           *)
(* separator-less concatenation question + answer is a real concatenation. *)
(* SHA-256 is modelled as an ideal (collision free) digest: the digest of  *)
(* s is the token "sha256:" followed by s.                                 *)
(***************************************************************************)
EXTENDS Integers, Sequences, FiniteSets, TLC

VARIABLES
    pc,             \* position of generate_questions
    tweets,         \* argument tweets
    num_questions,  \* argument num_questions
    max_retries,    \* argument max_retries
    attempt,        \* loop variable of `for attempt in range(max_retries)`
    questions,      \* local variable questions
    result,         \* the returned list
    calls,          \* number of model calls made so far
    slept,          \* a time.sleep(2) happened since the last primary call
    hist,           \* history: kinds of model-call outcomes seen so far
    att,            \* history: the requests and replies of the latest attempt
    ret,            \* history: the return statement that produced result
    vpc,            \* position of validate_answers
    stored,         \* the hash column of the questions rows of (game_id, stage)
    answer_hashes,  \* argument answer_hashes
    correct_hashes, \* local variable correct_hashes
    conn_open,      \* a store connection is open
    caught,         \* the exception caught by validate_answers, if any
    score,          \* value returned by validate_answers, -1 before it returns
    fpc,            \* position of fetch_tweets
    max_tweets,     \* argument max_tweets
    now,            \* datetime.now() at the call, in days
    timeline,       \* creation days of the tweets the user has posted
    user_data,      \* user.data is set
    tweets_data,    \* tweets.data, the creation days of the tweets received
    fetched,        \* the list returned by fetch_tweets
    fwhy            \* history: the return statement fetch_tweets took

gvars == <<pc, tweets, num_questions, max_retries, attempt, questions, result,
           calls, slept, hist, att, ret>>
vvars == <<vpc, stored, answer_hashes, correct_hashes, conn_open, caught, score>>
fvars == <<fpc, max_tweets, now, timeline, user_data, tweets_data, fetched, fwhy>>
vars == <<pc, tweets, num_questions, max_retries, attempt, questions, result,
          calls, slept, hist, att, ret, vpc, stored, answer_hashes, correct_hashes,
          conn_open, caught, score, fpc, max_tweets, now, timeline, user_data,
          tweets_data, fetched, fwhy>>

\* Bounds of the model.
MaxTarget == 2
MaxRetries == 2
MaxResp == 2
MaxTweets == 1
MaxStored == 3
MaxSubmitted == 4
MaxTimeline == 3
MaxMaxTweets == 2
MaxPadTarget == 4

\* timedelta(days=365)
LookbackDays == 365
\* max_tweets=100
DefaultMaxTweets == 100

Min(a, b) == IF a < b THEN a ELSE b

\* All sequences over S of length at most n.
SeqUpTo(S, n) == UNION {[1..k -> S] : k \in 0..n}

\* Python slice xs[:n] for n >= 0.
Prefix(xs, n) == SubSeq(xs, 1, Min(n, Len(xs)))

\* Python str(i) for i >= 0, as a sequence of digit tokens.
RECURSIVE Digits(_)
Digits(i) ==
    LET d == <<"0", "1", "2", "3", "4", "5", "6", "7", "8", "9">>[(i % 10) + 1]
    IN IF i < 10 THEN <<d>> ELSE Digits(i \div 10) \o <<d>>

\* hashlib.sha256(s.encode()).hexdigest(), as an ideal digest.
Sha256Hex(s) == <<"sha256:">> \o s

\* "0x" + sha256((question + correct_answer).encode()).hexdigest()
Fingerprint(question, correct_answer) ==
    <<"0x">> \o Sha256Hex(question \o correct_answer)

\* Python xs[i] is defined for -len(xs) <= i < len(xs).
PyIndexOk(xs, i) == -Len(xs) <= i /\ i < Len(xs)
PyIndex(xs, i) == IF i >= 0 THEN xs[i + 1] ELSE xs[Len(xs) + i + 1]

AllKeys == {"question", "options", "correct_answer", "hash"}

\* A parsed JSON entry.  A dict carries the keys named in `keys`; the value
\* of an absent key is a placeholder.  ca_int records isinstance(
\* q["correct_answer"], int).
Entry(isdict, keys, question, options, ca_int, correct_answer, hash) ==
    [isdict |-> isdict, keys |-> keys, question |-> question,
     options |-> options, ca_int |-> ca_int,
     correct_answer |-> correct_answer, hash |-> hash]

OptsABCD == << <<"A">>, <<"B">>, <<"C">>, <<"D">> >>
OptsABC == << <<"A">>, <<"B">>, <<"C">> >>

\* Entries the model may answer with: two well-formed drafts (one with the
\* blank hash the prompt asks for, one with a hash of the model's own), a
\* draft with three options and an index past them, a draft with a negative
\* index, a draft without options and with the answer given as a string, and
\* an entry that is not an object.
Good1 == Entry(TRUE, AllKeys, <<"q", "1">>, OptsABCD, TRUE, 1, << >>)
Good2 == Entry(TRUE, AllKeys, <<"q", "2">>, OptsABCD, TRUE, 3, <<"0x", "m">>)
Short3 == Entry(TRUE, AllKeys \ {"hash"}, <<"q", "3">>, OptsABC, TRUE, 5, << >>)
Neg1 == Entry(TRUE, AllKeys, <<"q", "4">>, OptsABCD, TRUE, -1, << >>)
NoOpts == Entry(TRUE, {"question", "correct_answer"}, <<"q", "5">>, << >>, FALSE, 0, << >>)
NotDict == Entry(FALSE, {}, << >>, << >>, FALSE, 0, << >>)

EntryPool == {Good1, Good2, Short3, Neg1, NoOpts, NotDict}

\* What the test of generate_questions asserts of a draft: the four keys,
\* four options, an index in 0..3 and a hash that starts with "0x".
WellFormed(q) ==
    /\ q.isdict
    /\ {"question", "options", "correct_answer"} \subseteq q.keys
    /\ Len(q.options) = 4
    /\ q.ca_int
    /\ q.correct_answer \in 0..3

\* Text of a model reply.  shape says what surrounds and fills the brackets.
TextShapes == {"array", "fenced_array", "prose", "object", "bad_json"}
Text(shape, items) == [shape |-> shape, items |-> items]

\* Outcomes of one chat-completion request: the call raises, or it answers
\* with a text.
Replies ==
    {[status |-> "error", text |-> Text("prose", << >>)]}
    \cup {[status |-> "ok", text |-> Text(sh, << >>)] :
            sh \in {"prose", "object", "bad_json"}}
    \cup {[status |-> "ok", text |-> Text("array", items)] :
            items \in SeqUpTo(EntryPool, MaxResp)}
    \cup {[status |-> "ok", text |-> Text("fenced_array", items)] :
            items \in SeqUpTo(EntryPool, 1)}

\* clean_json_response: strips the code fences, then requires the text to
\* start with "[" and end with "]"; ok = FALSE is the ValueError.
clean_json_response(content) ==
    LET unfenced == IF content.shape = "fenced_array"
                    THEN Text("array", content.items) ELSE content
    IN [ok |-> unfenced.shape \in {"array", "bad_json"}, content |-> unfenced]

\* json.loads: ok = FALSE is the JSONDecodeError.
json_loads(content) ==
    [ok |-> content.shape = "array", value |-> content.items]

\* clean_json_response followed by json.loads, as both call sites do.
Parse(content) ==
    LET c == clean_json_response(content)
    IN IF c.ok THEN json_loads(c.content) ELSE [ok |-> FALSE, value |-> << >>]

\* Body of `for q in questions` (lines 204-213) for one entry; ok = FALSE is
\* an exception (TypeError, KeyError or IndexError), raised after the
\* assignments made so far.
HashEntry(q) ==
    IF ~q.isdict THEN [q |-> q, ok |-> FALSE]
    ELSE
      LET q1 == IF "correct_answer" \notin q.keys \/ ~q.ca_int
                THEN [q EXCEPT !.correct_answer = 0, !.ca_int = TRUE,
                               !.keys = @ \cup {"correct_answer"}]
                ELSE q
      IN IF "options" \notin q1.keys THEN [q |-> q1, ok |-> FALSE]
         ELSE
           LET q2 == IF q1.correct_answer >= Len(q1.options)
                     THEN [q1 EXCEPT !.correct_answer = 0] ELSE q1
           IN IF ~PyIndexOk(q2.options, q2.correct_answer) \/ "question" \notin q2.keys
              THEN [q |-> q2, ok |-> FALSE]
              ELSE [q |-> [q2 EXCEPT
                            !.hash = Fingerprint(q2.question,
                                        PyIndex(q2.options, q2.correct_answer)),
                            !.keys = @ \cup {"hash"}],
                    ok |-> TRUE]

\* The loop of lines 203-213 from entry i on: entries are updated in place
\* and the loop stops at the first entry that raises.
RECURSIVE HashFrom(_, _)
HashFrom(qs, i) ==
    IF i > Len(qs) THEN [qs |-> qs, ok |-> TRUE]
    ELSE LET r == HashEntry(qs[i])
         IN IF r.ok THEN HashFrom([qs EXCEPT ![i] = r.q], i + 1)
            ELSE [qs |-> [qs EXCEPT ![i] = r.q], ok |-> FALSE]

HashLoop(qs) == HashFrom(qs, 1)

\* Variant of FillerClone that keeps the hash of the copied entry.
FillerCloneStaleHash(q) ==
    [q EXCEPT !.question = <<"FILLER: ">> \o q.question]

\* Lines 225-227: the copy of questions[0] marked as filler.
FillerClone(q) ==
    LET marked == <<"FILLER: ">> \o q.question
    IN [q EXCEPT !.question = marked,
                 !.hash = Fingerprint(marked, PyIndex(q.options, q.correct_answer))]

\* Lines 224-228: `while len(questions) < num_questions`, for a non-empty list.
RECURSIVE Pad(_, _)
Pad(qs, n) ==
    IF Len(qs) >= n THEN qs ELSE Pad(Append(qs, FillerClone(qs[1])), n)

\* Variant of FallbackQuestion whose text does not carry the number i + 1.
FallbackQuestionUnnumbered(i) ==
    LET question == <<"Fallback question (API error occurred)">>
        options == << <<"Option A">>, <<"Option B">>, <<"Option C">>, <<"Option D">> >>
    IN Entry(TRUE, AllKeys, question, options, TRUE, 0,
             Fingerprint(question, options[1]))

\* _generate_fallback_questions, entry i of range(num_questions).
FallbackQuestion(i) ==
    LET question == <<"Fallback question #">> \o Digits(i + 1)
                    \o <<" (API error occurred)">>
        options == << <<"Option A">>, <<"Option B">>, <<"Option C">>, <<"Option D">> >>
    IN Entry(TRUE, AllKeys, question, options, TRUE, 0,
             Fingerprint(question, options[1]))

generate_fallback_questions(n) == [i \in 1..n |-> FallbackQuestion(i - 1)]

\* f"{t['created_at']}: {t['text']}" is defined for a dict with both keys.
TweetKinds == {"full", "no_created_at", "no_text", "raw_string"}
TweetTextOk(ts) == \A i \in 1..Len(ts) : ts[i] = "full"

\* attempt == max_retries - 1
LastAttempt == attempt = max_retries - 1

\* How a reply counts for the history: "failed" when the call raised or the
\* text did not parse, "valid" when it parsed to well-formed drafts only.
ReplyKind(reply) ==
    IF reply.status = "error" \/ ~Parse(reply.text).ok THEN "failed"
    ELSE IF \A i \in 1..Len(reply.text.items) : WellFormed(reply.text.items[i])
         THEN "valid" ELSE "illformed"

Record(h, kind) ==
    IF kind = "illformed" THEN "mixed"
    ELSE IF h = "none" \/ h = kind THEN kind ELSE "mixed"

\* The log of an attempt before its primary request: no request sent, no
\* reply received; the log is cleared when the attempt is abandoned.  primary and followup count the requests of the attempt,
\* missing and exclude are the count and the list of existing questions
\* written into additional_prompt, added is additional_questions.
AttNone ==
    [primary |-> 0, pstatus |-> "none", followup |-> 0, fstatus |-> "none",
     missing |-> 0, exclude |-> << >>, added |-> << >>]

\* Status of a reply for the log.
ReplyStatus(reply) ==
    IF reply.status = "error" THEN "error"
    ELSE IF Parse(reply.text).ok THEN "parsed" ELSE "unparsed"

GenInit ==
    /\ pc = "start"
    /\ tweets \in SeqUpTo(TweetKinds, MaxTweets)
    /\ num_questions \in 0..MaxTarget
    /\ max_retries \in 0..MaxRetries
    /\ attempt = 0
    /\ questions = << >>
    /\ result = << >>
    /\ calls = 0
    /\ slept = FALSE
    /\ hist = "none"
    /\ att = AttNone
    /\ ret = "none"

\* Lines 78-116: tweet_text and the prompt are built outside the try block,
\* so a tweet without 'created_at' or 'text' raises out of the method.
BuildPrompt ==
    /\ pc = "start"
    /\ pc' = IF TweetTextOk(tweets) THEN "loop" ELSE "raised"
    /\ attempt' = 0
    /\ questions' = << >>
    /\ UNCHANGED <<tweets, num_questions, max_retries, result, calls, slept, hist,
                   att, ret>>
    /\ UNCHANGED vvars
    /\ UNCHANGED fvars

\* time.sleep(2); continue -- and the end of the except block of a
\* non-final attempt.
SleepAndRetry ==
    /\ slept' = TRUE
    /\ attempt' = attempt + 1
    /\ pc' = "loop"

\* Variant of Truncate that keeps the last n entries.
TruncateKeepLast(qs, n) ==
    IF Len(qs) > n THEN SubSeq(qs, Len(qs) - n + 1, Len(qs)) ELSE qs

\* Lines 199-200: questions = questions[:num_questions] when there are too
\* many.
Truncate(qs, n) == IF Len(qs) > n THEN Prefix(qs, n) ELSE qs

\* Variant of Finalize that returns a batch of the exact count on the final
\* attempt only.
FinalizeOnLastOnly(qs) ==
    LET cut == Truncate(qs, num_questions)
        h == HashLoop(cut)
    IN IF ~h.ok
       THEN /\ questions' = h.qs
            /\ pc' = "except"
            /\ UNCHANGED <<attempt, result, ret>>
       ELSE IF Len(h.qs) = num_questions /\ LastAttempt
       THEN /\ questions' = h.qs
            /\ result' = h.qs
            /\ ret' = "exact"
            /\ pc' = "done"
            /\ UNCHANGED attempt
       ELSE IF ~LastAttempt
       THEN \* also taken with the exact count
            /\ questions' = h.qs
            /\ attempt' = attempt + 1
            /\ pc' = "loop"
            /\ UNCHANGED <<result, ret>>
       ELSE IF Len(h.qs) = 0
       THEN \* questions[0] raises IndexError
            /\ questions' = h.qs
            /\ pc' = "except"
            /\ UNCHANGED <<attempt, result, ret>>
       ELSE /\ questions' = Pad(h.qs, num_questions)
            /\ result' = Prefix(Pad(h.qs, num_questions), num_questions)
            /\ ret' = "padded"
            /\ pc' = "done"
            /\ UNCHANGED attempt

\* Lines 199-229: truncate, hash every entry, then return on the exact
\* count, pad and return on the final attempt, or fall through to the next
\* attempt (without sleeping).  An exception leaves the entries as they were
\* when it was raised.
Finalize(qs) ==
    LET cut == Truncate(qs, num_questions)
        h == HashLoop(cut)
    IN IF ~h.ok
       THEN /\ questions' = h.qs
            /\ pc' = "except"
            /\ UNCHANGED <<attempt, result, ret>>
       ELSE IF Len(h.qs) = num_questions
       THEN /\ questions' = h.qs
            /\ result' = h.qs
            /\ ret' = "exact"
            /\ pc' = "done"
            /\ UNCHANGED attempt
       ELSE IF ~LastAttempt
       THEN /\ questions' = h.qs
            /\ attempt' = attempt + 1
            /\ pc' = "loop"
            /\ UNCHANGED <<result, ret>>
       ELSE IF Len(h.qs) = 0
       THEN \* questions[0] raises IndexError
            /\ questions' = h.qs
            /\ pc' = "except"
            /\ UNCHANGED <<attempt, result, ret>>
       ELSE /\ questions' = Pad(h.qs, num_questions)
            /\ result' = Prefix(Pad(h.qs, num_questions), num_questions)
            /\ ret' = "padded"
            /\ pc' = "done"
            /\ UNCHANGED attempt

\* Lines 118-162: the primary request of an attempt (through either API
\* style) and the parse of its text.
PrimaryCall ==
    /\ pc = "loop"
    /\ attempt < max_retries
    /\ \E reply \in Replies :
         /\ calls' = calls + 1
         /\ hist' = Record(hist, ReplyKind(reply))
         /\ IF reply.status = "error"
            THEN /\ pc' = "except"
                 /\ slept' = FALSE
                 /\ UNCHANGED <<attempt, questions, result, ret>>
            ELSE IF ~Parse(reply.text).ok
            THEN IF LastAttempt
                 THEN \* raise ValueError("Failed to parse JSON ...")
                      /\ pc' = "except"
                      /\ slept' = FALSE
                      /\ UNCHANGED <<attempt, questions, result, ret>>
                 ELSE /\ SleepAndRetry
                      /\ UNCHANGED <<questions, result, ret>>
            ELSE IF Len(Parse(reply.text).value) < num_questions
            THEN /\ questions' = Parse(reply.text).value
                 /\ pc' = "followup"
                 /\ slept' = FALSE
                 /\ UNCHANGED <<attempt, result, ret>>
            ELSE /\ Finalize(Parse(reply.text).value)
                 /\ slept' = FALSE
         /\ att' = IF pc' = "loop" THEN AttNone
                   ELSE [AttNone EXCEPT !.primary = 1,
                                        !.pstatus = ReplyStatus(reply)]
    /\ UNCHANGED <<tweets, num_questions, max_retries>>
    /\ UNCHANGED vvars
    /\ UNCHANGED fvars

\* Variant of MissingCount that asks for the whole batch again.
MissingCountWhole(n, k) == n

\* Line 163: missing = num_questions - len(questions).
MissingCount(n, k) == n - k

\* Variant of Extend that puts the additional questions in front.
ExtendInFront(qs, more) == more \o qs

\* Line 195: questions.extend(additional_questions).
Extend(qs, more) == qs \o more

\* Lines 163-229: the request for the missing questions; a text that does
\* not parse is dropped, a parsed one is appended to questions.
FollowUpCall ==
    /\ pc = "followup"
    /\ \E reply \in Replies :
         /\ calls' = calls + 1
         /\ hist' = Record(hist, ReplyKind(reply))
         /\ IF reply.status = "error"
            THEN /\ pc' = "except"
                 /\ UNCHANGED <<attempt, questions, result, ret>>
            ELSE IF ~Parse(reply.text).ok
            THEN Finalize(questions)
            ELSE Finalize(Extend(questions, Parse(reply.text).value))
         /\ att' = IF pc' = "loop" THEN AttNone
                   ELSE [att EXCEPT !.followup = @ + 1,
                                    !.fstatus = ReplyStatus(reply),
                                    !.missing = MissingCount(num_questions,
                                                            Len(questions)),
                                    !.exclude = questions,
                                    !.added = IF ReplyStatus(reply) = "parsed"
                                              THEN Parse(reply.text).value
                                              ELSE << >>]
    /\ UNCHANGED <<tweets, num_questions, max_retries, slept>>
    /\ UNCHANGED vvars
    /\ UNCHANGED fvars

\* Lines 231-243: except Exception.
ExceptHandler ==
    /\ pc = "except"
    /\ IF LastAttempt
       THEN /\ result' = IF Len(questions) > 0
                         THEN IF Len(questions) >= num_questions
                              THEN Prefix(questions, num_questions)
                              ELSE questions
                         ELSE generate_fallback_questions(num_questions)
            /\ ret' = IF Len(questions) > 0 THEN "handler" ELSE "fallback"
            /\ pc' = "done"
            /\ UNCHANGED <<attempt, slept>>
       ELSE /\ SleepAndRetry
            /\ UNCHANGED <<result, ret>>
    /\ att' = IF LastAttempt THEN att ELSE AttNone
    /\ UNCHANGED <<tweets, num_questions, max_retries, questions, calls, hist>>
    /\ UNCHANGED vvars
    /\ UNCHANGED fvars

\* Line 246: the loop ran out of attempts.
LoopExhausted ==
    /\ pc = "loop"
    /\ attempt >= max_retries
    /\ result' = generate_fallback_questions(num_questions)
    /\ ret' = "fallback"
    /\ pc' = "done"
    /\ UNCHANGED <<tweets, num_questions, max_retries, attempt, questions,
                   calls, slept, hist, att>>
    /\ UNCHANGED vvars
    /\ UNCHANGED fvars

\* validate_answers is not running in the generator's specification.
ValIdle ==
    /\ vpc = "idle"
    /\ stored = << >>
    /\ answer_hashes = << >>
    /\ correct_hashes = << >>
    /\ conn_open = FALSE
    /\ caught = "none"
    /\ score = -1

\* fetch_tweets is not running in the other specifications.
FetchIdle ==
    /\ fpc = "idle"
    /\ max_tweets = 0
    /\ now = 0
    /\ timeline = {}
    /\ user_data = FALSE
    /\ tweets_data = << >>
    /\ fetched = << >>
    /\ fwhy = "none"

Init == GenInit /\ ValIdle /\ FetchIdle

Next ==
    \/ BuildPrompt
    \/ PrimaryCall
    \/ FollowUpCall
    \/ ExceptHandler
    \/ LoopExhausted

Spec == Init /\ [][Next]_vars

\* Fingerprints that occur in the store and in submissions.
HashPool ==
    {Fingerprint(Good1.question, PyIndex(Good1.options, Good1.correct_answer)),
     Fingerprint(Good2.question, PyIndex(Good2.options, Good2.correct_answer)),
     <<"0xwrong">>}

\* Line 25: sum(1 for i, hash in enumerate(answer_hashes)
\*              if hash == correct_hashes[i]), from position i on;
\* ok = FALSE is the IndexError of correct_hashes[i].
RECURSIVE ScoreFrom(_, _, _)
ScoreFrom(answers, correct, i) ==
    IF i > Len(answers) THEN [ok |-> TRUE, value |-> 0]
    ELSE IF i > Len(correct) THEN [ok |-> FALSE, value |-> 0]
    ELSE LET rest == ScoreFrom(answers, correct, i + 1)
         IN [ok |-> rest.ok,
             value |-> rest.value + (IF answers[i] = correct[i] THEN 1 ELSE 0)]

\* Variant of Score that counts a submitted hash found anywhere in the
\* stored list.
ScoreAnyPosition(answers, correct) ==
    [ok |-> Len(answers) <= Len(correct),
     value |-> Cardinality({i \in 1..Len(answers) :
                              \E j \in 1..Len(correct) : answers[i] = correct[j]})]

Score(answers, correct) == ScoreFrom(answers, correct, 1)

\* generate_questions is not running in the validator's specification.
GenIdle ==
    /\ pc = "idle"
    /\ tweets = << >>
    /\ num_questions = 0
    /\ max_retries = 0
    /\ attempt = 0
    /\ questions = << >>
    /\ result = << >>
    /\ calls = 0
    /\ slept = FALSE
    /\ hist = "none"
    /\ att = AttNone
    /\ ret = "none"

ValInit ==
    /\ vpc = "connect"
    /\ stored \in SeqUpTo(HashPool, MaxStored)
    /\ answer_hashes \in SeqUpTo(HashPool, MaxSubmitted)
    /\ correct_hashes = << >>
    /\ conn_open = FALSE
    /\ caught = "none"
    /\ score = -1

\* Lines 10-17: psycopg2.connect(...) and conn.cursor().
Connect ==
    /\ vpc = "connect"
    /\ \E ok \in BOOLEAN :
         /\ conn_open' = ok
         /\ vpc' = IF ok THEN "execute" ELSE "except"
         /\ caught' = IF ok THEN caught ELSE "connect"
    /\ UNCHANGED <<stored, answer_hashes, correct_hashes, score>>
    /\ UNCHANGED gvars
    /\ UNCHANGED fvars

\* Lines 19-22: cursor.execute(SELECT hash FROM questions WHERE ...).
Execute ==
    /\ vpc = "execute"
    /\ \E ok \in BOOLEAN :
         /\ vpc' = IF ok THEN "fetch" ELSE "except"
         /\ caught' = IF ok THEN caught ELSE "execute"
    /\ UNCHANGED <<stored, answer_hashes, correct_hashes, conn_open, score>>
    /\ UNCHANGED gvars
    /\ UNCHANGED fvars

\* Line 23: correct_hashes = [row[0] for row in cursor.fetchall()].
FetchAll ==
    /\ vpc = "fetch"
    /\ \E ok \in BOOLEAN :
         /\ correct_hashes' = IF ok THEN stored ELSE correct_hashes
         /\ vpc' = IF ok THEN "score" ELSE "except"
         /\ caught' = IF ok THEN caught ELSE "fetchall"
    /\ UNCHANGED <<stored, answer_hashes, conn_open, score>>
    /\ UNCHANGED gvars
    /\ UNCHANGED fvars

\* Lines 25-29: the score, then cursor.close(), conn.close() and return.
ScoreAndClose ==
    /\ vpc = "score"
    /\ IF Score(answer_hashes, correct_hashes).ok
       THEN /\ score' = Score(answer_hashes, correct_hashes).value
            /\ conn_open' = FALSE
            /\ vpc' = "returned"
            /\ UNCHANGED caught
       ELSE /\ vpc' = "except"
            /\ caught' = "IndexError"
            /\ UNCHANGED <<score, conn_open>>
    /\ UNCHANGED <<stored, answer_hashes, correct_hashes>>
    /\ UNCHANGED gvars
    /\ UNCHANGED fvars

\* Variant of ValidateExcept that catches connection errors only and lets
\* every other exception out.
ValidateExceptConnectOnly ==
    /\ vpc = "except"
    /\ score' = IF caught = "connect" THEN 0 ELSE score
    /\ vpc' = IF caught = "connect" THEN "returned" ELSE "raised"
    /\ UNCHANGED <<stored, answer_hashes, correct_hashes, conn_open, caught>>
    /\ UNCHANGED gvars
    /\ UNCHANGED fvars

\* Lines 30-32: except Exception: print and return 0.
ValidateExcept ==
    /\ vpc = "except"
    /\ score' = 0
    /\ vpc' = "returned"
    /\ UNCHANGED <<stored, answer_hashes, correct_hashes, conn_open, caught>>
    /\ UNCHANGED gvars
    /\ UNCHANGED fvars

ValNext ==
    \/ Connect
    \/ Execute
    \/ FetchAll
    \/ ScoreAndClose
    \/ ValidateExcept

InitValidate == ValInit /\ GenIdle /\ FetchIdle

SpecValidate == InitValidate /\ [][ValNext]_vars


(***************************************************************************)
(* fetch_tweets of src/ai/twitter_fetcher.py.  Time is counted in days.    *)
(***************************************************************************)

\* Days on which the user may have tweeted, around the one-year mark before
\* the call.
DayPool(t) ==
    {t - LookbackDays - 30, t - LookbackDays - 1, t - LookbackDays,
     t - LookbackDays + 1, t - 1}

\* The elements of a finite set of days as a sequence, newest first.
RECURSIVE NewestFirst(_)
NewestFirst(S) ==
    IF S = {} THEN << >>
    ELSE LET m == CHOOSE x \in S : \A y \in S : y <= x
         IN <<m>> \o NewestFirst(S \ {m})

\* Variant of TweetsRequest that always asks for the default number.
TweetsRequestDefaultCount(t, n) ==
    [max_results |-> DefaultMaxTweets, end_time |-> t - LookbackDays]

\* Lines 27-32: the parameters of get_users_tweets.
TweetsRequest(t, n) ==
    [max_results |-> n, end_time |-> t - LookbackDays]

\* The tweets an API that honours max_results and end_time answers with:
\* the newest max_results tweets created no later than end_time.
ApiTweets(days, req) ==
    Prefix(NewestFirst({d \in days : d <= req.end_time}), req.max_results)

\* Line 39: created_at.isoformat() renders the creation time as text.
isoformat(d) == <<"iso:", d>>

\* Lines 38-41: the record built from a tweet.
TweetRecord(d) == [text |-> <<"tweet">>, created_at |-> isoformat(d)]

FetchInit ==
    /\ fpc = "get_user"
    /\ max_tweets \in (1..MaxMaxTweets) \cup {DefaultMaxTweets}
    /\ now \in {1000, 1001}
    /\ timeline \in {S \in SUBSET DayPool(now) : Cardinality(S) <= MaxTimeline}
    /\ user_data = FALSE
    /\ tweets_data = << >>
    /\ fetched = << >>
    /\ fwhy = "none"

\* Lines 21-24: get_user; the call raises, finds no user or finds the user.
GetUser ==
    /\ fpc = "get_user"
    /\ \E outcome \in {"error", "no_user", "found"} :
         /\ user_data' = (outcome = "found")
         /\ fpc' = CASE outcome = "error" -> "except"
                     [] outcome = "no_user" -> "returned"
                     [] OTHER -> "get_tweets"
         /\ fwhy' = IF outcome = "no_user" THEN "no_user" ELSE fwhy
    /\ UNCHANGED <<max_tweets, now, timeline, tweets_data, fetched>>
    /\ UNCHANGED <<gvars, vvars>>

\* Lines 27-41: get_users_tweets; the call raises or answers, and the
\* answer is returned as records unless it is empty.
GetUsersTweets ==
    /\ fpc = "get_tweets"
    /\ \E ok \in BOOLEAN :
         IF ~ok
         THEN /\ fpc' = "except"
              /\ UNCHANGED <<tweets_data, fetched, fwhy>>
         ELSE LET data == ApiTweets(timeline, TweetsRequest(now, max_tweets))
              IN /\ tweets_data' = data
                 /\ fetched' = [i \in 1..Len(data) |-> TweetRecord(data[i])]
                 /\ fwhy' = IF Len(data) = 0 THEN "no_tweets" ELSE "tweets"
                 /\ fpc' = "returned"
    /\ UNCHANGED <<max_tweets, now, timeline, user_data>>
    /\ UNCHANGED <<gvars, vvars>>

\* Variant of FetchExcept that lets the exception out.
FetchExceptReraise ==
    /\ fpc = "except"
    /\ fpc' = "raised"
    /\ UNCHANGED <<max_tweets, now, timeline, user_data, tweets_data, fetched, fwhy>>
    /\ UNCHANGED <<gvars, vvars>>

\* Lines 42-44: except Exception: print and return [].
FetchExcept ==
    /\ fpc = "except"
    /\ fetched' = << >>
    /\ fwhy' = "error"
    /\ fpc' = "returned"
    /\ UNCHANGED <<max_tweets, now, timeline, user_data, tweets_data>>
    /\ UNCHANGED <<gvars, vvars>>

FetchNext ==
    \/ GetUser
    \/ GetUsersTweets
    \/ FetchExcept

InitFetch == FetchInit /\ GenIdle /\ ValIdle

SpecFetch == InitFetch /\ [][FetchNext]_vars

(***************************************************************************)
(* The padding of the final attempt (lines 220-229) on its own, from the   *)
(* states in which generate_questions reaches it: the final attempt, a     *)
(* primary batch that passed the hashing loop, a follow-up that added      *)
(* nothing, and fewer than num_questions entries.                          *)
(***************************************************************************)

\* The parsed entries the hashing loop accepts.
PadPool == {e \in EntryPool : HashEntry(e).ok}

PadInit ==
    /\ pc = "pad"
    /\ tweets = << >>
    /\ num_questions \in 2..MaxPadTarget
    /\ max_retries \in 1..MaxRetries
    /\ attempt = max_retries - 1
    /\ \E b \in SeqUpTo(PadPool, MaxPadTarget - 1) :
         /\ 0 < Len(b)
         /\ Len(b) < num_questions
         /\ questions = HashLoop(b).qs
         /\ att = [primary |-> 1, pstatus |-> "parsed", followup |-> 1,
                   fstatus |-> "parsed",
                   missing |-> MissingCount(num_questions, Len(b)),
                   exclude |-> b, added |-> << >>]
    /\ result = << >>
    /\ calls = attempt + 2
    /\ slept = FALSE
    /\ hist = IF attempt = 0 THEN "valid" ELSE "mixed"
    /\ ret = "none"

\* Lines 220-229: on the final attempt append copies of questions[0] until
\* there are num_questions entries, and return.
PadAndReturn ==
    /\ pc = "pad"
    /\ LastAttempt
    /\ 0 < Len(questions)
    /\ Len(questions) < num_questions
    /\ questions' = Pad(questions, num_questions)
    /\ result' = Prefix(Pad(questions, num_questions), num_questions)
    /\ ret' = "padded"
    /\ pc' = "done"
    /\ UNCHANGED <<tweets, num_questions, max_retries, attempt, calls, slept,
                   hist, att>>
    /\ UNCHANGED vvars
    /\ UNCHANGED fvars

InitPad == PadInit /\ ValIdle /\ FetchIdle

SpecPad == InitPad /\ [][PadAndReturn]_vars

(***************************************************************************)
(* Properties of generate_questions.                                       *)
(***************************************************************************)

\* The QuestionDraft invariant: the stored hash is the fingerprint of the
\* question and the option the index selects.
HasFingerprint(q) ==
    /\ q.isdict
    /\ AllKeys \subseteq q.keys
    /\ q.ca_int
    /\ PyIndexOk(q.options, q.correct_answer)
    /\ q.hash = Fingerprint(q.question, PyIndex(q.options, q.correct_answer))

IsFiller(q) == Len(q.question) > 0 /\ Head(q.question) = "FILLER: "

\* C1: whatever the model answers, generate_questions returns exactly
\* num_questions drafts.
C1_ReturnsExactCount ==
    pc = "done" => Len(result) = num_questions

\* C2: every returned draft carries the fingerprint of its question and its
\* correct option, on every return path.
C2_ReturnedHashIsFingerprint ==
    pc = "done" => \A i \in 1..Len(result) : HasFingerprint(result[i])

\* C3: no exception escapes generate_questions, whatever the tweets and the
\* model's answers are.
C3_NoExceptionEscapes ==
    pc # "raised"

\* C4: when every model call answered a JSON array of well-formed drafts,
\* the result has exactly num_questions drafts and each carries its
\* fingerprint.
C4_ValidOutputsGiveExactBatch ==
    (pc = "done" /\ hist \in {"none", "valid"}) =>
        /\ Len(result) = num_questions
        /\ \A i \in 1..Len(result) : HasFingerprint(result[i])

\* C4 witness: all replies were valid arrays, two calls were made and the
\* returned batch of two ends with a filler entry.
C4_Witness ==
    /\ pc = "done"
    /\ hist = "valid"
    /\ calls >= 2
    /\ Len(result) = 2
    /\ ~IsFiller(result[1])
    /\ IsFiller(result[2])

\* C5: every returned draft has a question, exactly four options, an integer
\* index in 0..3 and a hash that starts with "0x".
C5_ReturnedDraftsWellFormed ==
    pc = "done" =>
        \A i \in 1..Len(result) :
            /\ WellFormed(result[i])
            /\ "hash" \in result[i].keys
            /\ Len(result[i].hash) > 0
            /\ Head(result[i].hash) = "0x"

\* C6: when the primary reply of every attempt was malformed or the call
\* raised, the result is the fallback batch: num_questions placeholders,
\* determined by num_questions, pairwise distinct, each with four options,
\* index 0 and the fingerprint of its question and first option.
C6_PersistentFailureGivesFallback ==
    (pc = "done" /\ hist \in {"none", "failed"}) =>
        /\ Len(result) = num_questions
        /\ result = generate_fallback_questions(num_questions)
        /\ \A i \in 1..Len(result) :
              /\ Head(result[i].question) = "Fallback question #"
              /\ Len(result[i].options) = 4
              /\ result[i].correct_answer = 0
              /\ result[i].hash = Fingerprint(result[i].question, result[i].options[1])
        /\ \A i, j \in 1..Len(result) :
              i # j => /\ result[i].question # result[j].question
                       /\ result[i].hash # result[j].hash

\* C6 witness: two attempts, both failed, and two fallback drafts returned.
C6_Witness ==
    /\ pc = "done"
    /\ hist = "failed"
    /\ calls = 2
    /\ num_questions = 2
    /\ Len(result) = 2

\* C10: with num_questions = 0 the result is empty and the model is never
\* called.
C10_ZeroTargetMakesNoCall ==
    num_questions = 0 =>
        /\ calls = 0
        /\ (pc = "done" => result = << >>)


\* Every entry of qs is a well-formed draft.
AllValid(qs) == \A i \in 1..Len(qs) : WellFormed(qs[i])

\* The questions of qs are pairwise different.
DistinctQuestions(qs) ==
    \A i, j \in 1..Len(qs) : i # j => qs[i].question # qs[j].question

\* a and b are the same parsed entry, up to the fields the hashing loop sets.
SameDraft(a, b) ==
    /\ a.isdict = b.isdict
    /\ a.question = b.question
    /\ a.options = b.options

\* A step of FollowUpCall: a model call made from the follow-up position.
FollowUpStep == pc = "followup" /\ calls' = calls + 1

\* C11: with an empty tweet list the result is empty and the model is never
\* called.
C11_EmptyTweetsMakeNoCall ==
    tweets = << >> =>
        /\ calls = 0
        /\ (pc = "done" => result = << >>)

\* C12: when the primary reply holds k < num_questions valid drafts and the
\* follow-up reply holds exactly num_questions - k valid drafts, all with
\* different questions, the follow-up step returns the k drafts followed by
\* the others: num_questions unique questions, no filler, no further call.
C12_FollowUpCompletesBatch ==
    [][(/\ FollowUpStep
        /\ att'.fstatus = "parsed"
        /\ AllValid(questions)
        /\ AllValid(att'.added)
        /\ Len(att'.added) = num_questions - Len(questions)
        /\ DistinctQuestions(questions \o att'.added))
       => (/\ pc' = "done"
           /\ ret' = "exact"
           /\ attempt' = attempt
           /\ Len(result') = num_questions
           /\ \A i \in 1..Len(result') :
                 /\ SameDraft(result'[i], (questions \o att'.added)[i])
                 /\ HasFingerprint(result'[i])
                 /\ ~IsFiller(result'[i])
           /\ DistinctQuestions(result'))]_vars

\* C12 witness: one draft from the primary reply and a different one from
\* the follow-up reply were returned on a non-final attempt.
C12_Witness ==
    /\ pc = "done"
    /\ ret = "exact"
    /\ attempt < max_retries - 1
    /\ att.fstatus = "parsed"
    /\ Len(att.exclude) = 1
    /\ Len(att.added) = 1
    /\ AllValid(att.exclude \o att.added)
    /\ Len(result) = 2
    /\ result[1].question = att.exclude[1].question
    /\ result[2].question = att.added[1].question
    /\ result[1].question # result[2].question

\* The fingerprint recomputed from a returned draft as a validator would,
\* from its question and the option its index selects.
RecomputedHash(q) ==
    IF q.isdict /\ {"question", "options", "correct_answer"} \subseteq q.keys
       /\ q.ca_int /\ PyIndexOk(q.options, q.correct_answer)
    THEN <<"0x">> \o Sha256Hex(q.question \o PyIndex(q.options, q.correct_answer))
    ELSE <<"undefined">>

\* C13: the hash stored in any returned draft equals the fingerprint
\* recomputed from its question and correct option, whichever of the three
\* places computed it.
C13_RecomputedFingerprintMatches ==
    (pc = "done" /\ ret # "none") =>
        \A i \in 1..Len(result) :
            /\ "hash" \in result[i].keys
            /\ result[i].hash = RecomputedHash(result[i])

\* C16: the next primary call is never reached without a backoff wait since
\* the previous primary call.
C16_BackoffBeforeEveryRetry ==
    (pc = "loop" /\ 0 < attempt /\ attempt < max_retries) => slept

\* Bounds on attempts and model calls.
CallBounds ==
    /\ attempt <= max_retries
    /\ calls <= 2 * max_retries
    /\ att.primary <= 1
    /\ att.followup <= 1
    /\ (pc = "done" => calls <= 2 * (attempt + 1))

\* The attempt parsed a batch that now has exactly num_questions entries.
ExactBatch ==
    /\ att.pstatus = "parsed"
    /\ att.fstatus # "error"
    /\ pc # "followup"
    /\ Len(questions) = num_questions

\* The attempt is over and returns, or has returned, its batch.
Returning == pc = "done" \/ (pc = "except" /\ LastAttempt)

\* C17 as stated: the bounds on attempts and calls hold, and an attempt whose
\* batch has exactly num_questions entries returns.
C17_ReturnsAtFirstExactBatch ==
    /\ CallBounds
    /\ ExactBatch => Returning

\* A measure that every step of generate_questions decreases.
Measure ==
    CASE pc \in {"done", "raised"} -> 0
      [] pc = "start" -> 3 * max_retries + 4
      [] pc = "loop" -> 3 * (max_retries - attempt) + 3
      [] pc = "followup" -> 3 * (max_retries - attempt) + 2
      [] OTHER -> 3 * (max_retries - attempt) + 1

\* C17 amended: every step decreases a measure that is never negative, so
\* no run of the call goes on for ever; the bounds
\* on attempts and calls hold; and an attempt whose batch has exactly
\* num_questions entries, all hashed without an exception, returns: the
\* call that completes such a batch is the last step.
C17_TerminatesWithinBounds ==
    /\ [](CallBounds /\ Measure >= 0)
    /\ [][Measure' < Measure]_vars
    /\ []((ExactBatch /\ \A i \in 1..Len(questions) : HasFingerprint(questions[i]))
            => Returning)
    /\ [][(/\ calls' = calls + 1
            /\ num_questions > 0
            /\ Len(questions') = num_questions
            /\ \A i \in 1..Len(questions') : HasFingerprint(questions'[i]))
           => (pc' = "done" /\ ret' \in {"exact", "padded"}
               /\ attempt' = attempt)]_vars

\* C17 witness: the first of two attempts returned its exact batch after a
\* primary and a follow-up call.
C17_Witness ==
    /\ pc = "done"
    /\ ret = "exact"
    /\ attempt = 0
    /\ max_retries = 2
    /\ calls = 2
    /\ num_questions = 2

MergedInto(new, old, added) ==
    LET m == old \o added
        k == Min(num_questions, Len(m))
    IN /\ Len(new) >= k
       /\ \A i \in 1..k : SameDraft(new[i], m[i])

C19_ShortBatchesArePadded ==
    (pc = "done" /\ calls > 0 /\ calls = 2 * (attempt + 1)) =>
        /\ att.followup > 0
        /\ Len(result) = num_questions
        /\ LET m == att.exclude \o att.added
               k == Min(num_questions, Len(m))
           IN /\ \A i \in 1..k : SameDraft(result[i], m[i])
              /\ \A i \in (k + 1)..Len(result) :
                    /\ IsFiller(result[i])
                    /\ HasFingerprint(result[i])

\* C20: on the final attempt a parsed, non-empty batch is returned by the
\* attempt itself with every entry repaired: four options, an index in 0..3
\* and the fingerprint.
C20_MalformedEntriesRepaired ==
    (/\ pc = "done"
     /\ LastAttempt
     /\ att.pstatus = "parsed"
     /\ att.fstatus # "error"
     /\ Len(questions) > 0) =>
        /\ ret \in {"exact", "padded"}
        /\ \A i \in 1..Len(result) :
              /\ WellFormed(result[i])
              /\ HasFingerprint(result[i])

\* C21: when the primary batch followed by the follow-up entries has more
\* than num_questions entries, the result is its first num_questions entries
\* in their order, whether the attempt returns directly or through the
\* except block.
C21_TruncationKeepsPrefix ==
    (/\ pc = "done"
     /\ att.fstatus = "parsed"
     /\ Len(att.exclude \o att.added) > num_questions) =>
        /\ ret \in {"exact", "handler"}
        /\ Len(result) = num_questions
        /\ \A i \in 1..num_questions :
              SameDraft(result[i], (att.exclude \o att.added)[i])

\* C21 witness: one accepted draft and two follow-up drafts, all different,
\* for a target of two: the second follow-up draft was dropped.
C21_Witness ==
    /\ pc = "done"
    /\ num_questions = 2
    /\ att.fstatus = "parsed"
    /\ Len(att.exclude) = 1
    /\ Len(att.added) = 2
    /\ DistinctQuestions(att.exclude \o att.added)
    /\ Len(result) = 2
    /\ result[1].question = att.exclude[1].question
    /\ result[2].question = att.added[1].question

\* C23: when the attempt that returns got no parsed primary reply (the
\* request raised or the text did not parse), the result is the fallback
\* batch: nothing parsed in an earlier attempt is returned.
C23_NoDraftsCarriedOver ==
    (pc = "done" /\ att.pstatus \in {"error", "unparsed"}) =>
        /\ ret = "fallback"
        /\ result = generate_fallback_questions(num_questions)

\* The hashes of qs are pairwise different.
DistinctHashes(qs) ==
    \A i, j \in 1..Len(qs) : i # j => qs[i].hash # qs[j].hash

\* C24: when the drafts parsed in the returning attempt (the primary batch
\* and what the follow-up added) have pairwise different questions, the
\* questions and the hashes of the returned batch
\* are pairwise different too, filler entries included.
C24_ReturnedEntriesDistinct ==
    (/\ pc = "done"
     /\ ret \in {"exact", "padded"}
     /\ att.followup > 0
     /\ DistinctQuestions(att.exclude \o att.added)) =>
        /\ DistinctQuestions(result)
        /\ DistinctHashes(result)

(***************************************************************************)
(* Properties of validate_answers.                                         *)
(***************************************************************************)

StoreFailures == {"connect", "execute", "fetchall"}

\* Number of positions below n where the submitted and the stored hash agree.
Matches(answers, correct, n) ==
    Cardinality({i \in 1..n : answers[i] = correct[i]})

\* C7: with at most as many submitted as stored hashes and a store that
\* answers, validate_answers returns the number of positions where the two
\* lists agree, and it never raises.
C7_ScoreIsPositionalMatchCount ==
    /\ vpc # "raised"
    /\ Len(answer_hashes) <= Len(stored) => caught # "IndexError"
    /\ (vpc = "returned" /\ caught = "none" /\ Len(answer_hashes) <= Len(stored)) =>
          /\ score = Matches(answer_hashes, stored, Len(answer_hashes))
          /\ (answer_hashes = stored => score = Len(stored))
          /\ ((\A i \in 1..Len(answer_hashes) : answer_hashes[i] # stored[i])
                => score = 0)

\* C7 witness: a shorter submission was scored, and one of its hashes is a
\* stored hash placed at another position, which was not counted.
C7_Witness ==
    /\ vpc = "returned"
    /\ caught = "none"
    /\ Len(answer_hashes) = 2
    /\ Len(stored) = 3
    /\ answer_hashes[1] = stored[1]
    /\ answer_hashes[2] # stored[2]
    /\ answer_hashes[2] = stored[3]
    /\ score = 1

\* C8: with more submitted than stored hashes and a store that answers, the
\* score is the number of agreeing positions among the first len(stored).
C8_SurplusAnswersIgnored ==
    (vpc = "returned" /\ caught \notin StoreFailures
        /\ Len(answer_hashes) > Len(stored)) =>
        score = Matches(answer_hashes, stored, Len(stored))

\* C9: a failure of connect, execute or fetchall is caught and
\* validate_answers returns 0; no exception leaves validate_answers.
C9_StoreFailureScoresZero ==
    /\ vpc # "raised"
    /\ caught \in StoreFailures => vpc \in {"except", "returned"}
    /\ (vpc = "returned" /\ caught \in StoreFailures) => score = 0

\* C9 witness: the query failed on an open connection and 0 was returned
\* although the submission matches the store.
C9_Witness ==
    /\ vpc = "returned"
    /\ caught \in {"execute", "fetchall"}
    /\ Len(stored) > 0
    /\ answer_hashes = stored
    /\ score = 0

\* C22: when validate_answers has returned, the connection it opened has
\* been closed, whichever path it returned by.
C22_ConnectionClosedOnReturn ==
    vpc = "returned" => ~conn_open

(***************************************************************************)
(* Properties of fetch_tweets.                                             *)
(***************************************************************************)

\* C14: fetch_tweets never raises, returns at most max_tweets records of a
\* text and a creation time, and returns the empty list when the user is not
\* found, when there are no tweets and when an API call raised.
C14_FetchReturnsBoundedList ==
    /\ fpc # "raised"
    /\ Len(fetched) <= max_tweets
    /\ \A i \in 1..Len(fetched) : DOMAIN fetched[i] = {"text", "created_at"}
    /\ (fpc = "returned" /\ fwhy \in {"no_user", "no_tweets", "error"})
          => fetched = << >>
    /\ fpc = "returned" => fwhy # "none"

\* C14 witness: the user has more tweets before the end time than asked
\* for, and exactly max_tweets records were returned.
C14_Witness ==
    /\ fpc = "returned"
    /\ fwhy = "tweets"
    /\ Len(fetched) = max_tweets
    /\ Cardinality({d \in timeline : d <= now - LookbackDays}) > max_tweets

\* C15: every returned record was created no more than 365 days before the
\* call.
C15_RecordsWithinLookback ==
    fpc = "returned" =>
        \A i \in 1..Len(fetched) :
            \E d \in timeline :
                /\ fetched[i].created_at = isoformat(d)
                /\ d >= now - LookbackDays

====
